---- MODULE Spec2Model ----
(***************************************************************************)
(* Model of the PowerShops ROI calculator (App component).                 *)
(*                                                                         *)
(* The calculator state is the six assumption values held by useState and  *)
(* the memoized `calculations` record that useMemo derives from five of    *)
(* them.  JavaScript numbers are modelled as exact extended rationals      *)
(* [n, d]: d > 0 is a finite value n/d in lowest terms, d = 0 is NaN       *)
(* (n = 0), Infinity (n = 1) or -Infinity (n = -1), so that a division by  *)
(* zero is a value the checks can see, as it is in JavaScript.             *)
(* The rounding of each operation to a double is left out of the           *)
(* rationals; the section on double precision carries it out for the       *)
(* totals that the calculation reaches by two routes.                      *)
(***************************************************************************)
EXTENDS Integers, Sequences, FiniteSets, TLC

VARIABLES employees, salary, trainingHours, turnover, replaceCost, term,
          calculations,
          aistudio, showCalculator, isSubmitting, submitPc, trackUserReq,
          submitAlert,
          aiInsights, isLoadingAi, isRefreshDisabled, aiPc, aiReq,
          cooldownTimers,
          isGeneratingPdf, pdfPc,
          trackUserLog, aiInsightsLog,
          formatInput, formatOutput,
          pdfDoc, userPrompt,
          binary64

\* The assumption sliders and the memoized calculation.
calcVars == <<employees, salary, trainingHours, turnover, replaceCost, term,
              calculations>>

\* The lead-capture form: handleFormSubmit and its request to track-user.
formVars == <<aistudio, showCalculator, isSubmitting, submitPc, trackUserReq,
              submitAlert>>

\* The AI insights panel: getAiInsights, its request and its cooldown timer.
aiVars == <<aiInsights, isLoadingAi, isRefreshDisabled, aiPc, aiReq,
            cooldownTimers>>

\* The report export: downloadReport.
pdfVars == <<isGeneratingPdf, pdfPc>>

\* The two Netlify functions seen from any HTTP client: the last invocation
\* of track-user and of get-ai-insights.
srvVars == <<trackUserLog, aiInsightsLog>>

\* The formatters applied to a number: the argument and the strings returned.
fmtVars == <<formatInput, formatOutput>>

\* Locals of the async handlers that outlive an await: the jsPDF document of
\* downloadReport (the page images added so far, then the file saved) and
\* the userPrompt of getAiInsights.
obsVars == <<pdfDoc, userPrompt>>

\* The calculation carried out in IEEE 754 double precision, as the engine
\* carries it out: the inputs it was applied to and the figures it returned.
numVars == <<binary64>>

extVars == <<srvVars, fmtVars, obsVars, numVars>>

uiVars == <<formVars, aiVars, pdfVars, extVars>>

vars == <<calcVars, uiVars>>

(***************************************************************************)
(* Bounds of the model and constants of the program.                       *)
(***************************************************************************)
MaxEmployeesK == 2
MaxSalaryK == 5
SalaryStride == 4
MaxTurnover == 1
MaxReplaceK == 2
MaxTerm == 7
MaxTrainingHours == 1
UiK == 1
FormatSpread == 2

EmployeesStep == 10
EmployeesMin == 10
SalaryStep == 1000
SalaryMin == 20000
TurnoverMax == 100
TrainingHoursMax == 100
ReplaceCostMin == 5000
ReplaceCostStep == 1000
TermMin == 1
EmployeesMax == 2000
SalaryMax == 200000
ReplaceCostMax == 100000
TermMax == 5
trainingHoursSavedPerEmployee == 10
workingHoursPerYear == 2080

(***************************************************************************)
(* JavaScript number arithmetic on extended rationals.                     *)
(***************************************************************************)
Abs(x) == IF x < 0 THEN -x ELSE x

Sign(x) == IF x < 0 THEN -1 ELSE IF x > 0 THEN 1 ELSE 0

RECURSIVE GCD(_, _)
GCD(a, b) == IF b = 0 THEN a ELSE GCD(b, a % b)

LCM(a, b) == (a \div GCD(a, b)) * b

Norm(n, d) ==
    IF d = 0 THEN [n |-> Sign(n), d |-> 0]
    ELSE LET g == GCD(Abs(n), Abs(d))
         IN  [n |-> Sign(d) * (n \div g), d |-> Abs(d) \div g]

R(k) == [n |-> k, d |-> 1]

NaN == [n |-> 0, d |-> 0]

IsFinite(x) == x.d # 0

RNeg(a) == [n |-> -a.n, d |-> a.d]

RAdd(a, b) ==
    IF a.d # 0 /\ b.d # 0
    THEN LET l == LCM(a.d, b.d)
         IN  Norm(a.n * (l \div a.d) + b.n * (l \div b.d), l)
    ELSE IF a.d = 0 /\ b.d = 0
         THEN (IF a.n = b.n THEN a ELSE NaN)
         ELSE IF a.d = 0 THEN a ELSE b

RSub(a, b) == RAdd(a, RNeg(b))

RMul(a, b) ==
    IF a.d # 0 /\ b.d # 0
    THEN LET g1 == GCD(Abs(a.n), b.d)
             g2 == GCD(Abs(b.n), a.d)
         IN  IF a.n = 0 \/ b.n = 0 THEN R(0)
             ELSE [n |-> (a.n \div g1) * (b.n \div g2),
                   d |-> (a.d \div g2) * (b.d \div g1)]
    ELSE Norm(Sign(a.n) * Sign(b.n), 0)

RInv(b) ==
    IF b.d = 0 THEN (IF b.n = 0 THEN NaN ELSE R(0))
    ELSE IF b.n = 0 THEN [n |-> 1, d |-> 0]
    ELSE [n |-> Sign(b.n) * b.d, d |-> Abs(b.n)]

RDiv(a, b) == RMul(a, RInv(b))

RGt(a, b) == RSub(a, b).n > 0

RGe(a, b) == RGt(a, b) \/ (a.d # 0 /\ a = b)

(***************************************************************************)
(* Number.prototype.toFixed(1) and the `Year ${year}` template.            *)
(***************************************************************************)
toFixed1(v) ==
    IF v.d = 0
    THEN (IF v.n = 0 THEN "NaN" ELSE IF v.n > 0 THEN "Infinity" ELSE "-Infinity")
    ELSE LET q == (Abs(v.n) * 20 + v.d) \div (2 * v.d)
         IN  (IF v.n < 0 THEN "-" ELSE "")
             \o ToString(q \div 10) \o "." \o ToString(q % 10)

\* Mutant: no test for the sentinel.
formatMonthsNoSentinel(value) == toFixed1(value) \o " mo"

formatMonths(value) ==
    IF RGt(value, R(0)) THEN toFixed1(value) \o " mo" ELSE "N/A"

yearLabel(year) == "Year " \o ToString(year)

(***************************************************************************)
(* The other formatters: Math.round, Intl.NumberFormat('en-US') currency   *)
(* with no fraction digits, formatPercent and formatCurrencyK.             *)
(***************************************************************************)
RAbs(a) == [n |-> Abs(a.n), d |-> a.d]

\* Math.round of a finite value: the nearest integer, a tie towards +Infinity.
MathRound(v) == (2 * v.n + v.d) \div (2 * v.d)

\* The integer part of an en-US number, digits grouped by three.
RECURSIVE groupDigits(_)
groupDigits(k) ==
    IF k < 1000 THEN ToString(k)
    ELSE LET low == k % 1000
         IN  groupDigits(k \div 1000) \o ","
             \o (IF low < 10 THEN "00" ELSE IF low < 100 THEN "0" ELSE "")
             \o ToString(low)

\* Intl rounds to the nearest integer, a tie away from zero, and keeps the
\* sign of a negative value that rounds to zero.
formatCurrency(value) ==
    IF value.d = 0
    THEN (IF value.n = 0 THEN "$NaN" ELSE IF value.n > 0 THEN "$Infinity" ELSE "-$Infinity")
    ELSE (IF value.n < 0 THEN "-$" ELSE "$")
         \o groupDigits((2 * Abs(value.n) + value.d) \div (2 * value.d))

formatPercent(value) ==
    IF value.d = 0 THEN toFixed1(value) \o "%"
    ELSE ToString(MathRound(value)) \o "%"

Million == 1000000

Thousand == 1000

\* Mutant: the thresholds compared with the value itself, not Math.abs(value).
formatCurrencyKNoAbs(value) ==
    IF RGe(value, R(Million))
    THEN toFixed1(RDiv(value, R(Million))) \o "M"
    ELSE IF RGe(value, R(Thousand))
    THEN ToString(MathRound(RDiv(value, R(Thousand)))) \o "K"
    ELSE formatCurrency(value)

formatCurrencyK(value) ==
    IF RGe(RAbs(value), R(Million))
    THEN toFixed1(RDiv(value, R(Million))) \o "M"
    ELSE IF RGe(RAbs(value), R(Thousand))
    THEN ToString(MathRound(RDiv(value, R(Thousand)))) \o "K"
    ELSE formatCurrency(value)

\* Every formatter applied to one value.
formatAll(value) ==
    [formatCurrency |-> formatCurrency(value),
     formatPercent |-> formatPercent(value),
     formatCurrencyK |-> formatCurrencyK(value),
     formatMonths |-> formatMonths(value)]

(***************************************************************************)
(* The memoized calculation (useMemo body), line by line.                  *)
(***************************************************************************)
productivityBoost == Norm(5, 100)

turnoverReduction == Norm(20, 100)

costPerYearPerEmployee == <<500, 475, 450, 425, 400>>

\* arr[i] of a JavaScript array: <<>> stands for undefined.
ArrayGet(arr, i) == IF i + 1 \in DOMAIN arr THEN <<arr[i + 1]>> ELSE <<>>

\* a || b on numbers: undefined and 0 are falsy.
OrElse(opt, fallback) == IF opt = <<>> \/ opt[1] = 0 THEN fallback ELSE opt[1]

\* Mutant: no fallback to the last tier beyond the table.
tierOrZero(i) == OrElse(ArrayGet(costPerYearPerEmployee, i), 0)

tierOrLast(i) ==
    OrElse(ArrayGet(costPerYearPerEmployee, i),
           costPerYearPerEmployee[Len(costPerYearPerEmployee)])

\* Mutant: a sign slip in the yearly cost of the investment loop.
annualCostForYearNegated(e, i) == RMul(R(-e), R(tierOrLast(i)))

annualCostForYear(e, i) == RMul(R(e), R(tierOrLast(i)))

RECURSIVE totalInvestmentLoop(_, _, _, _)
totalInvestmentLoop(e, tm, i, acc) ==
    IF i < tm
    THEN totalInvestmentLoop(e, tm, i + 1, RAdd(acc, annualCostForYear(e, i)))
    ELSE acc

totalInvestment(e, tm) == totalInvestmentLoop(e, tm, 0, R(0))

\* Mutant: the term > 0 guard dropped.
averageAnnualCostUnguarded(ti, tm) == RDiv(ti, R(tm))

averageAnnualCost(ti, tm) == IF tm > 0 THEN RDiv(ti, R(tm)) ELSE R(0)

hourlyRate(s) == RDiv(R(s), R(workingHoursPerYear))

\* Mutant: the boost counted once for the company, not per employee.
annualProductivityGainsOnce(e, s) == RMul(R(s), productivityBoost)

annualProductivityGains(e, s) == RMul(RMul(R(e), R(s)), productivityBoost)

\* Mutant: the turnover percentage used as a fraction (no division by 100).
annualTurnoverSavingsNoPercent(e, t, r) ==
    RMul(RMul(RMul(R(e), R(t)), turnoverReduction), R(r))

annualTurnoverSavings(e, t, r) ==
    RMul(RMul(RMul(R(e), RDiv(R(t), R(100))), turnoverReduction), R(r))

\* Mutant: the trainingHours input used instead of the fixed hours saved.
annualTrainingSavingsFromInput(e, s) ==
    RMul(RMul(R(e), R(trainingHours)), hourlyRate(s))

annualTrainingSavings(e, s) ==
    RMul(RMul(R(e), R(trainingHoursSavedPerEmployee)), hourlyRate(s))

annualBenefit(e, s, t, r) ==
    RAdd(RAdd(annualProductivityGains(e, s), annualTurnoverSavings(e, t, r)),
         annualTrainingSavings(e, s))

\* Mutant: the training component left out of the total.
totalBenefitNoTraining(pg, ts, tr) == RAdd(pg, ts)

totalBenefit(pg, ts, tr) == RAdd(RAdd(pg, ts), tr)

\* Mutant: the operands of the subtraction swapped.
netBenefitSwapped(tb, ti) == RSub(ti, tb)

netBenefit(tb, ti) == RSub(tb, ti)

\* Mutant: the zero-investment guard dropped.
totalRoiUnguarded(nb, ti) == RMul(RDiv(nb, ti), R(100))

totalRoi(nb, ti) ==
    IF RGt(ti, R(0)) THEN RMul(RDiv(nb, ti), R(100)) ELSE R(0)

\* Mutant: the result left in years (no conversion to months).
monthsToBreakEvenInYears(ab, avg, ti) ==
    IF RGt(ab, R(0)) /\ RGt(ab, avg) THEN RDiv(ti, RSub(ab, avg)) ELSE R(0)

\* Mutant: the comparison with the average annual cost dropped.
monthsToBreakEvenUnguarded(ab, avg, ti) ==
    IF RGt(ab, R(0)) THEN RMul(RDiv(ti, RSub(ab, avg)), R(12)) ELSE R(0)

monthsToBreakEven(ab, avg, ti) ==
    IF RGt(ab, R(0)) /\ RGt(ab, avg)
    THEN RMul(RDiv(ti, RSub(ab, avg)), R(12))
    ELSE R(0)

\* Mutant: a sign slip in the yearly cost of the cash-flow loop.
cashFlowCostForYearNegated(e, year) == RMul(R(-e), R(tierOrLast(year - 1)))

\* Mutant: the tier of the following year (index year instead of year - 1).
cashFlowCostForYearOffByOne(e, year) == RMul(R(e), R(tierOrLast(year)))

cashFlowCostForYear(e, year) == RMul(R(e), R(tierOrLast(year - 1)))

\* Mutant: the annual benefit pushed instead of the cumulative one.
cashFlowEntryFlatBenefit(ab, year, cumulativeCost) ==
    [year |-> yearLabel(year),
     cumulativeBenefit |-> ab,
     cumulativeCost |-> cumulativeCost,
     netCashFlow |-> RSub(ab, cumulativeCost)]

cashFlowEntry(ab, year, cumulativeCost) ==
    [year |-> yearLabel(year),
     cumulativeBenefit |-> RMul(ab, R(year)),
     cumulativeCost |-> cumulativeCost,
     netCashFlow |-> RSub(RMul(ab, R(year)), cumulativeCost)]

RECURSIVE cashFlowLoop(_, _, _, _, _, _)
cashFlowLoop(e, tm, ab, i, cumulativeCost, cashFlowData) ==
    IF i <= tm
    THEN LET cost == IF i > 0
                     THEN RAdd(cumulativeCost, cashFlowCostForYear(e, i))
                     ELSE cumulativeCost
         IN  cashFlowLoop(e, tm, ab, i + 1, cost,
                          Append(cashFlowData, cashFlowEntry(ab, i, cost)))
    ELSE cashFlowData

\* Mutant: the loop started at year 1, without the zero baseline.
cashFlowDataNoBaseline(e, tm, ab) == cashFlowLoop(e, tm, ab, 1, R(0), <<>>)

cashFlowData(e, tm, ab) == cashFlowLoop(e, tm, ab, 0, R(0), <<>>)

Calc(e, s, t, r, tm) ==
    LET ti  == totalInvestment(e, tm)
        avg == averageAnnualCost(ti, tm)
        ab  == annualBenefit(e, s, t, r)
        pg  == RMul(annualProductivityGains(e, s), R(tm))
        ts  == RMul(annualTurnoverSavings(e, t, r), R(tm))
        tr  == RMul(annualTrainingSavings(e, s), R(tm))
        tb  == totalBenefit(pg, ts, tr)
        nb  == netBenefit(tb, ti)
    IN  [powerShopsAnnualCost |-> avg,
         totalInvestment |-> ti,
         productivityGains |-> pg,
         turnoverReductionSavings |-> ts,
         trainingTimeSavings |-> tr,
         totalBenefit |-> tb,
         netBenefit |-> nb,
         totalRoi |-> totalRoi(nb, ti),
         monthsToBreakEven |-> monthsToBreakEven(ab, avg, ti),
         cashFlowData |-> cashFlowData(e, tm, ab)]

(***************************************************************************)
(* The calculation as a function of its inputs: each setter re-renders the *)
(* component and useMemo recomputes `calculations` when a dependency has   *)
(* changed.  The values are drawn from bounded sets that reach outside the *)
(* slider ranges (no employees, a term of 0, terms beyond the five price   *)
(* tiers), as the calculation itself accepts them.                         *)
(***************************************************************************)
EmployeesValues == {EmployeesStep * k : k \in 0..MaxEmployeesK}

SalaryValues == {SalaryStep * SalaryStride * k : k \in 0..MaxSalaryK}

TrainingHoursValues == 0..MaxTrainingHours

TurnoverValues == (0..MaxTurnover) \cup {TurnoverMax}

ReplaceCostValues == {ReplaceCostMin * k : k \in 0..MaxReplaceK}

TermValues == 0..MaxTerm

\* The state after construction: the useState defaults and the first useMemo.
InitAssumptions ==
    /\ employees = 10
    /\ salary = 20000
    /\ trainingHours = 0
    /\ turnover = 0
    /\ replaceCost = 5000
    /\ term = 1
    /\ calculations = Calc(10, 20000, 0, 5000, 1)

NoRequest == [state |-> "none", status |-> 0, message |-> ""]

NoInvocation ==
    [invoked |-> FALSE, httpMethod |-> "", body |-> "", urlSet |-> FALSE,
     webhook |-> [rejects |-> FALSE, status |-> 0, textOk |-> FALSE],
     statusCode |-> 0]

NoAiInvocation ==
    [invoked |-> FALSE, httpMethod |-> "", apiKeySet |-> FALSE, body |-> "",
     sdk |-> "", statusCode |-> 0, error |-> "", insights |-> ""]

\* binary64 before the calculation has been carried out in double precision.
NoBinary64 ==
    [applied |-> FALSE, employees |-> 10, salary |-> 20000, turnover |-> 0,
     replaceCost |-> 5000, term |-> 1, figures |-> <<>>]

\* userPrompt before getAiInsights has run.
NoPrompt ==
    [built |-> FALSE, employees |-> 0, term |-> 0, totalRoi |-> "",
     netBenefit |-> "", paybackPeriod |-> "", productivityShare |-> 0,
     callToAction |-> FALSE]

InitUi ==
    /\ showCalculator = FALSE
    /\ isSubmitting = FALSE
    /\ submitPc = "idle"
    /\ trackUserReq = NoRequest
    /\ submitAlert = ""
    /\ aiInsights = ""
    /\ isLoadingAi = FALSE
    /\ isRefreshDisabled = FALSE
    /\ aiPc = "idle"
    /\ aiReq = NoRequest
    /\ cooldownTimers = 0
    /\ isGeneratingPdf = FALSE
    /\ pdfPc = "idle"
    /\ trackUserLog = NoInvocation
    /\ aiInsightsLog = NoAiInvocation
    /\ formatInput = R(0)
    /\ formatOutput = formatAll(R(0))
    /\ pdfDoc = <<>>
    /\ userPrompt = NoPrompt
    /\ binary64 = NoBinary64

InitCalc ==
    /\ InitAssumptions
    /\ InitUi
    /\ aistudio = FALSE

setEmployees(v) ==
    /\ employees' = v
    /\ calculations' = Calc(v, salary, turnover, replaceCost, term)
    /\ UNCHANGED <<salary, trainingHours, turnover, replaceCost, term>>
    /\ UNCHANGED uiVars

setSalary(v) ==
    /\ salary' = v
    /\ calculations' = Calc(employees, v, turnover, replaceCost, term)
    /\ UNCHANGED <<employees, trainingHours, turnover, replaceCost, term>>
    /\ UNCHANGED uiVars

\* trainingHours is not among the useMemo dependencies: no recomputation.
setTrainingHours(v) ==
    /\ trainingHours' = v
    /\ UNCHANGED <<employees, salary, turnover, replaceCost, term, calculations>>
    /\ UNCHANGED uiVars

\* Mutant: turnover missing from the useMemo dependencies.
setTurnoverStale(v) ==
    /\ turnover' = v
    /\ UNCHANGED <<employees, salary, trainingHours, replaceCost, term, calculations>>
    /\ UNCHANGED uiVars

setTurnover(v) ==
    /\ turnover' = v
    /\ calculations' = Calc(employees, salary, v, replaceCost, term)
    /\ UNCHANGED <<employees, salary, trainingHours, replaceCost, term>>
    /\ UNCHANGED uiVars

setReplaceCost(v) ==
    /\ replaceCost' = v
    /\ calculations' = Calc(employees, salary, turnover, v, term)
    /\ UNCHANGED <<employees, salary, trainingHours, turnover, term>>
    /\ UNCHANGED uiVars

\* Mutant: term left out of the useMemo dependency list.
setTermStale(v) ==
    /\ term' = v
    /\ UNCHANGED <<employees, salary, trainingHours, turnover, replaceCost, calculations>>
    /\ UNCHANGED uiVars

setTerm(v) ==
    /\ term' = v
    /\ calculations' = Calc(employees, salary, turnover, replaceCost, v)
    /\ UNCHANGED <<employees, salary, trainingHours, turnover, replaceCost>>
    /\ UNCHANGED uiVars

NextCalc ==
    \/ \E v \in EmployeesValues : setEmployees(v)
    \/ \E v \in SalaryValues : setSalary(v)
    \/ \E v \in TrainingHoursValues : setTrainingHours(v)
    \/ \E v \in TurnoverValues : setTurnover(v)
    \/ \E v \in ReplaceCostValues : setReplaceCost(v)
    \/ \E v \in TermValues : setTerm(v)

SpecCalc == InitCalc /\ [][NextCalc]_vars

(***************************************************************************)
(* netlify/functions/track-user.js: the handler in force (the last         *)
(* assignment to exports.handler).  body is the kind of event.body:        *)
(* "object" and "number" parse to a value whose properties can be read,    *)
(* "null" parses to null, "invalid" and "undefined" make JSON.parse throw. *)
(* webhook is what the GET to the Google Apps Script does: the fetch       *)
(* rejects, or it resolves with a status and response.text() resolves or   *)
(* rejects.                                                                *)
(***************************************************************************)
HttpMethods == {"GET", "POST", "PUT", "OPTIONS"}

BodyKinds == {"object", "number", "null", "invalid", "undefined"}

ValidJsonBodies == {"object", "number", "null"}

WebhookOutcomes ==
    {[rejects |-> TRUE, status |-> 0, textOk |-> FALSE]}
    \cup [rejects : {FALSE}, status : {200, 302, 404, 500}, textOk : BOOLEAN]

trackUserHandler(httpMethod, body, urlSet, webhook) ==
    IF httpMethod # "POST"
    THEN [statusCode |-> 405, body |-> "Method Not Allowed"]
    ELSE IF body \notin ValidJsonBodies
    THEN \* JSON.parse throws: the catch block
         [statusCode |-> 500, body |-> "An internal error occurred."]
    ELSE IF ~urlSet
    THEN [statusCode |-> 200,
          body |-> "Data logged but could not be sent to Sheets due to missing config."]
    ELSE IF body = "null"
    THEN \* userData['first-name'] on null throws: the catch block
         [statusCode |-> 500, body |-> "An internal error occurred."]
    ELSE IF webhook.rejects \/ ~webhook.textOk
    THEN \* await fetch(...) or await response.text() rejects: the catch block
         [statusCode |-> 500, body |-> "An internal error occurred."]
    ELSE [statusCode |-> 200, body |-> "Data received and processed."]

\* Any HTTP client invoking the function.
trackUserInvoke(httpMethod, body, urlSet, webhook) ==
    /\ trackUserLog' =
           [invoked |-> TRUE, httpMethod |-> httpMethod, body |-> body,
            urlSet |-> urlSet, webhook |-> webhook,
            statusCode |->
                trackUserHandler(httpMethod, body, urlSet, webhook).statusCode]
    /\ UNCHANGED <<calcVars, formVars, aiVars, pdfVars>>
    /\ UNCHANGED <<aiInsightsLog, fmtVars, obsVars, numVars>>

NextTrackUser ==
    \E m \in HttpMethods, b \in BodyKinds, u \in BOOLEAN, w \in WebhookOutcomes :
        trackUserInvoke(m, b, u, w)

SpecTrackUser == InitCalc /\ [][NextTrackUser]_vars

(***************************************************************************)
(* The lead-capture form: handleFormSubmit up to its await, the request to *)
(* track-user, and the continuation after the await.                       *)
(***************************************************************************)
FetchErrorMessages ==
    {"Failed to fetch", "NetworkError when attempting to fetch resource."}

AlertGeneric ==
    "Sorry, there was an error submitting your details. Please try again."

\* First sentence of the message; the hint about `netlify dev` that follows
\* it in the source is left out.
AlertNotFound ==
    "Submission failed. It seems the tracking function could not be reached."

AlertNetwork ==
    "Submission failed due to a network error. Please check your internet connection and try again."

\* submitAlert is the text of the alert() raised by the latest submission;
\* the dialog is modal, so it has been dismissed when the form is submitted
\* again.
handleFormSubmit ==
    /\ ~showCalculator
    /\ ~isSubmitting
    /\ submitPc = "idle"
    /\ isSubmitting' = TRUE
    /\ submitAlert' = ""
    /\ IF aistudio
       THEN submitPc' = "delay" /\ UNCHANGED trackUserReq
       ELSE /\ submitPc' = "fetch"
            /\ trackUserReq' = [state |-> "sent", status |-> 0, message |-> ""]
    /\ UNCHANGED <<aistudio, showCalculator>>
    /\ UNCHANGED <<calcVars, aiVars, pdfVars, extVars>>

\* The 500 ms timer of the AI Studio branch.
handleFormSubmitDelayDone ==
    /\ submitPc = "delay"
    /\ showCalculator' = TRUE
    /\ isSubmitting' = FALSE
    /\ submitPc' = "idle"
    /\ UNCHANGED <<aistudio, trackUserReq, submitAlert>>
    /\ UNCHANGED <<calcVars, aiVars, pdfVars, extVars>>

\* The track-user function serves the form's POST of JSON.stringify(formData).
trackUserServe ==
    /\ trackUserReq.state = "sent"
    /\ \E u \in BOOLEAN, w \in WebhookOutcomes :
          trackUserReq' =
              [state |-> "response",
               status |-> trackUserHandler("POST", "object", u, w).statusCode,
               message |-> ""]
    /\ UNCHANGED <<aistudio, showCalculator, isSubmitting, submitPc, submitAlert>>
    /\ UNCHANGED <<calcVars, aiVars, pdfVars, extVars>>

\* The request never reaches the function: the fetch rejects, or the
\* platform answers 404 because the function is not deployed.
trackUserUnreachable ==
    /\ trackUserReq.state = "sent"
    /\ \/ \E m \in FetchErrorMessages :
             trackUserReq' = [state |-> "failed", status |-> 0, message |-> m]
       \/ trackUserReq' = [state |-> "response", status |-> 404, message |-> ""]
    /\ UNCHANGED <<aistudio, showCalculator, isSubmitting, submitPc, submitAlert>>
    /\ UNCHANGED <<calcVars, aiVars, pdfVars, extVars>>

\* error.message in the catch block (response.statusText is left out).
submitErrorMessage(req) ==
    IF req.state = "failed" THEN req.message
    ELSE IF req.status = 404 THEN "Function not found (404)."
    ELSE "Server returned an error: " \o ToString(req.status)

\* The two includes() tests, decided on the messages that can occur.
submitDisplayMessage(errorMessage) ==
    IF errorMessage = "Function not found (404)." THEN AlertNotFound
    ELSE IF errorMessage = "Failed to fetch" THEN AlertNetwork
    ELSE AlertGeneric

\* Mutant: the calculator unlocked whatever the outcome of the request.
handleFormSubmitFetchDoneAlways ==
    /\ submitPc = "fetch"
    /\ trackUserReq.state \in {"response", "failed"}
    /\ LET ok == trackUserReq.state = "response" /\ trackUserReq.status \in 200..299
       IN  /\ showCalculator' = TRUE
           /\ submitAlert' =
                  IF ok THEN ""
                  ELSE submitDisplayMessage(submitErrorMessage(trackUserReq))
    /\ isSubmitting' = FALSE
    /\ submitPc' = "idle"
    /\ trackUserReq' = NoRequest
    /\ UNCHANGED aistudio
    /\ UNCHANGED <<calcVars, aiVars, pdfVars, extVars>>

handleFormSubmitFetchDone ==
    /\ submitPc = "fetch"
    /\ trackUserReq.state \in {"response", "failed"}
    /\ LET ok == trackUserReq.state = "response" /\ trackUserReq.status \in 200..299
       IN  /\ showCalculator' = IF ok THEN TRUE ELSE showCalculator
           /\ submitAlert' =
                  IF ok THEN ""
                  ELSE submitDisplayMessage(submitErrorMessage(trackUserReq))
    /\ isSubmitting' = FALSE
    /\ submitPc' = "idle"
    /\ trackUserReq' = NoRequest
    /\ UNCHANGED aistudio
    /\ UNCHANGED <<calcVars, aiVars, pdfVars, extVars>>

\* The "Back to Form" button.
backToForm ==
    /\ showCalculator
    /\ showCalculator' = FALSE
    /\ UNCHANGED <<aistudio, isSubmitting, submitPc, trackUserReq, submitAlert>>
    /\ UNCHANGED <<calcVars, aiVars, pdfVars, extVars>>

(***************************************************************************)
(* netlify/functions/get-ai-insights.js: the handler in force.  body is    *)
(* the kind of event.body ("prompts": both prompts present), sdk is what   *)
(* generateContent does: it yields text, yields no text, or throws.        *)
(***************************************************************************)
InsightsText == "**Investment Value Assessment**: ..."

SdkErrorMessage == "fetch failed"

\* Kinds of event.body: both prompts present; a JSON object lacking one or
\* both of them (or holding an empty string); text that JSON.parse rejects;
\* the JSON text null, whose destructuring throws.
AiBodyKinds ==
    {"prompts", "noUserPrompt", "noSystemInstruction", "emptyObject",
     "null", "invalid", "undefined"}

MissingPromptBodies == {"noUserPrompt", "noSystemInstruction", "emptyObject"}

ThrowingBodies == {"null", "invalid", "undefined"}

ParseErrorMessage == "Unexpected token"

AiConfigError == "Server configuration error: The API key is not configured."

AiMissingPromptError == "Missing required prompt information in the request."

AiEmptyResponseError == "Received an unexpected or empty response from the AI service."

AiInternalError(details) ==
    "An internal server error occurred while generating insights. Details: "
        \o details

\* Mutant: the body parsed, inside the try block, before the API key is
\* looked at.
getAiInsightsHandlerParseFirst(httpMethod, apiKeySet, body, sdk) ==
    IF httpMethod # "POST"
    THEN [statusCode |-> 405, json |-> FALSE, error |-> "", insights |-> ""]
    ELSE IF body \in ThrowingBodies
    THEN [statusCode |-> 500, json |-> TRUE,
          error |-> AiInternalError(ParseErrorMessage), insights |-> ""]
    ELSE IF ~apiKeySet
    THEN [statusCode |-> 500, json |-> TRUE, error |-> AiConfigError,
          insights |-> ""]
    ELSE IF body \in MissingPromptBodies
    THEN [statusCode |-> 400, json |-> TRUE, error |-> AiMissingPromptError,
          insights |-> ""]
    ELSE IF sdk = "throws"
    THEN [statusCode |-> 500, json |-> TRUE,
          error |-> AiInternalError(SdkErrorMessage), insights |-> ""]
    ELSE IF sdk = "empty"
    THEN [statusCode |-> 500, json |-> TRUE, error |-> AiEmptyResponseError,
          insights |-> ""]
    ELSE [statusCode |-> 200, json |-> TRUE, error |-> "", insights |-> InsightsText]

getAiInsightsHandler(httpMethod, apiKeySet, body, sdk) ==
    IF httpMethod # "POST"
    THEN [statusCode |-> 405, json |-> FALSE, error |-> "", insights |-> ""]
    ELSE IF ~apiKeySet
    THEN [statusCode |-> 500, json |-> TRUE, error |-> AiConfigError,
          insights |-> ""]
    ELSE IF body \in ThrowingBodies
    THEN \* JSON.parse or the destructuring throws: the catch block
         [statusCode |-> 500, json |-> TRUE,
          error |-> AiInternalError(ParseErrorMessage), insights |-> ""]
    ELSE IF body \in MissingPromptBodies
    THEN [statusCode |-> 400, json |-> TRUE, error |-> AiMissingPromptError,
          insights |-> ""]
    ELSE IF sdk = "throws"
    THEN \* generateContent rejects: the catch block
         [statusCode |-> 500, json |-> TRUE,
          error |-> AiInternalError(SdkErrorMessage), insights |-> ""]
    ELSE IF sdk = "empty"
    THEN [statusCode |-> 500, json |-> TRUE, error |-> AiEmptyResponseError,
          insights |-> ""]
    ELSE [statusCode |-> 200, json |-> TRUE, error |-> "", insights |-> InsightsText]

SdkOutcomes == {"text", "empty", "throws"}

\* Any HTTP client invoking the function.
getAiInsightsInvoke(httpMethod, apiKeySet, body, sdk) ==
    /\ aiInsightsLog' =
           LET res == getAiInsightsHandler(httpMethod, apiKeySet, body, sdk)
           IN  [invoked |-> TRUE, httpMethod |-> httpMethod,
                apiKeySet |-> apiKeySet, body |-> body, sdk |-> sdk,
                statusCode |-> res.statusCode, error |-> res.error,
                insights |-> res.insights]
    /\ UNCHANGED <<calcVars, formVars, aiVars, pdfVars>>
    /\ UNCHANGED <<trackUserLog, fmtVars, obsVars, numVars>>

NextAiInsights ==
    \E m \in HttpMethods, k \in BOOLEAN, b \in AiBodyKinds, o \in SdkOutcomes :
        getAiInsightsInvoke(m, k, b, o)

SpecAiInsights == InitCalc /\ [][NextAiInsights]_vars

(***************************************************************************)
(* getAiInsights: up to its await, the request to get-ai-insights, the     *)
(* continuation after the await, and the cooldown timer it leaves behind.  *)
(* aiReq.message carries data.insights of an OK response, data.error of a  *)
(* non-OK one, and error.message of a rejected fetch or response.json().   *)
(***************************************************************************)
AiErrorPrefix == "We're sorry, an error occurred: "

\* Mutant: the Regenerate button never disabled.
getAiInsightsNoCooldown ==
    /\ showCalculator
    /\ ~isLoadingAi
    /\ aiPc = "idle"
    /\ isLoadingAi' = TRUE
    /\ aiInsights' = ""
    /\ isRefreshDisabled' = TRUE
    /\ aiPc' = "fetch"
    /\ aiReq' = [state |-> "sent", status |-> 0, message |-> ""]
    /\ UNCHANGED cooldownTimers
    /\ UNCHANGED <<calcVars, formVars, pdfVars, extVars>>

\* The Generate button (no insights yet) or the Regenerate button (insights
\* shown, cooldown over); neither is rendered while loading.
getAiInsights ==
    /\ showCalculator
    /\ ~isLoadingAi
    /\ aiPc = "idle"
    /\ aiInsights = "" \/ ~isRefreshDisabled
    /\ isLoadingAi' = TRUE
    /\ aiInsights' = ""
    /\ isRefreshDisabled' = TRUE
    /\ aiPc' = "fetch"
    /\ aiReq' = [state |-> "sent", status |-> 0, message |-> ""]
    /\ UNCHANGED cooldownTimers
    /\ UNCHANGED <<calcVars, formVars, pdfVars, extVars>>

\* The get-ai-insights function serves the POST of both prompts.
getAiInsightsServe ==
    /\ aiReq.state = "sent"
    /\ \E k \in BOOLEAN, o \in SdkOutcomes :
          LET res == getAiInsightsHandler("POST", k, "prompts", o)
          IN  aiReq' = [state |-> "response", status |-> res.statusCode,
                        message |-> IF res.statusCode = 200 THEN res.insights
                                    ELSE res.error]
    /\ UNCHANGED <<aiInsights, isLoadingAi, isRefreshDisabled, aiPc, cooldownTimers>>
    /\ UNCHANGED <<calcVars, formVars, pdfVars, extVars>>

\* The request does not get an answer from the function: the fetch rejects,
\* the platform answers with a body that is not JSON, or with a JSON error
\* body that has no `error` property (a function timeout).
getAiInsightsUnreachable ==
    /\ aiReq.state = "sent"
    /\ \/ aiReq' = [state |-> "failed", status |-> 0, message |-> "Failed to fetch"]
       \/ aiReq' = [state |-> "unparsable", status |-> 404,
                    message |-> "Unexpected token '<'"]
       \/ aiReq' = [state |-> "response", status |-> 502, message |-> ""]
    /\ UNCHANGED <<aiInsights, isLoadingAi, isRefreshDisabled, aiPc, cooldownTimers>>
    /\ UNCHANGED <<calcVars, formVars, pdfVars, extVars>>

aiRequestOk(req) == req.state = "response" /\ req.status \in 200..299

\* error.message in the catch block.
aiErrorMessage(req) ==
    IF req.state \in {"failed", "unparsable"} THEN req.message
    ELSE IF req.message # "" THEN req.message
    ELSE "Server error: " \o ToString(req.status)

\* Mutant: the loading flag reset on the success path only.
getAiInsightsDoneNoFinally ==
    /\ aiPc = "fetch"
    /\ aiReq.state \in {"response", "failed", "unparsable"}
    /\ aiInsights' = IF aiRequestOk(aiReq) THEN aiReq.message
                     ELSE AiErrorPrefix \o aiErrorMessage(aiReq)
    /\ isLoadingAi' = IF aiRequestOk(aiReq) THEN FALSE ELSE isLoadingAi
    /\ cooldownTimers' = cooldownTimers + 1
    /\ aiPc' = "idle"
    /\ aiReq' = NoRequest
    /\ UNCHANGED isRefreshDisabled
    /\ UNCHANGED <<calcVars, formVars, pdfVars, extVars>>

getAiInsightsDone ==
    /\ aiPc = "fetch"
    /\ aiReq.state \in {"response", "failed", "unparsable"}
    /\ aiInsights' = IF aiRequestOk(aiReq) THEN aiReq.message
                     ELSE AiErrorPrefix \o aiErrorMessage(aiReq)
    /\ isLoadingAi' = FALSE
    /\ cooldownTimers' = cooldownTimers + 1
    /\ aiPc' = "idle"
    /\ aiReq' = NoRequest
    /\ UNCHANGED isRefreshDisabled
    /\ UNCHANGED <<calcVars, formVars, pdfVars, extVars>>

\* A 5-second timer set in the finally block fires.
cooldownExpires ==
    /\ cooldownTimers > 0
    /\ cooldownTimers' = cooldownTimers - 1
    /\ isRefreshDisabled' = FALSE
    /\ UNCHANGED <<aiInsights, isLoadingAi, aiPc, aiReq>>
    /\ UNCHANGED <<calcVars, formVars, pdfVars, extVars>>

(***************************************************************************)
(* downloadReport and the PdfReport it makes React mount.                  *)
(***************************************************************************)
downloadReport ==
    /\ showCalculator
    /\ ~isGeneratingPdf
    /\ pdfPc = "idle"
    /\ isGeneratingPdf' = TRUE
    /\ pdfPc' = "delay"
    /\ UNCHANGED <<calcVars, formVars, aiVars, extVars>>

\* PdfReport is part of the calculator view: it is in the DOM, and the two
\* page refs are set, while isGeneratingPdf holds and the calculator is shown.
PdfReportMounted == showCalculator /\ isGeneratingPdf

\* After the 100 ms delay: the refs are read.
downloadReportAfterDelay ==
    /\ pdfPc = "delay"
    /\ IF PdfReportMounted
       THEN pdfPc' = "page1" /\ UNCHANGED isGeneratingPdf
       ELSE pdfPc' = "idle" /\ isGeneratingPdf' = FALSE
    /\ UNCHANGED <<calcVars, formVars, aiVars, extVars>>

\* html2canvas of page 1 resolves or rejects.
downloadReportPage1 ==
    /\ pdfPc = "page1"
    /\ \/ pdfPc' = "page2" /\ UNCHANGED isGeneratingPdf
       \/ pdfPc' = "idle" /\ isGeneratingPdf' = FALSE
    /\ UNCHANGED <<calcVars, formVars, aiVars, extVars>>

\* html2canvas of page 2 resolves, and the file is saved, or rejects; the
\* finally block runs either way.
downloadReportPage2 ==
    /\ pdfPc = "page2"
    /\ pdfPc' = "idle"
    /\ isGeneratingPdf' = FALSE
    /\ UNCHANGED <<calcVars, formVars, aiVars, extVars>>

\* The assumptions object built on each render of the calculator view.
assumptions ==
    [employees |-> employees, salary |-> salary, trainingHours |-> trainingHours,
     turnover |-> turnover, replaceCost |-> replaceCost, term |-> term]

\* The props of <PdfReport .../>.
PdfReportProps ==
    [calculations |-> calculations, assumptions |-> assumptions,
     aiInsights |-> aiInsights]

\* What PdfReport puts on its pages: the props' figures, not recomputed.
PdfReport(props) ==
    [assumptions |-> props.assumptions,
     totalRoi |-> props.calculations.totalRoi,
     netBenefit |-> props.calculations.netBenefit,
     monthsToBreakEven |-> props.calculations.monthsToBreakEven,
     totalBenefit |-> props.calculations.totalBenefit,
     powerShopsAnnualCost |-> props.calculations.powerShopsAnnualCost,
     productivityGains |-> props.calculations.productivityGains,
     turnoverReductionSavings |-> props.calculations.turnoverReductionSavings,
     trainingTimeSavings |-> props.calculations.trainingTimeSavings,
     cashFlowData |-> props.calculations.cashFlowData,
     aiInsights |-> IF props.aiInsights = "" THEN "Insights not generated."
                    ELSE props.aiInsights]

\* What the calculator view shows: the KPI cards, the breakdowns, the chart.
LiveDisplay ==
    [totalRoi |-> calculations.totalRoi,
     netBenefit |-> calculations.netBenefit,
     monthsToBreakEven |-> calculations.monthsToBreakEven,
     totalBenefit |-> calculations.totalBenefit,
     powerShopsAnnualCost |-> calculations.powerShopsAnnualCost,
     productivityGains |-> calculations.productivityGains,
     turnoverReductionSavings |-> calculations.turnoverReductionSavings,
     trainingTimeSavings |-> calculations.trainingTimeSavings,
     cashFlowData |-> calculations.cashFlowData]

(***************************************************************************)
(* The sliders of the calculator view, and the application as a whole.     *)
(***************************************************************************)
UiEmployeesValues == {EmployeesMin, EmployeesMin + EmployeesStep * UiK}

UiSalaryValues == {SalaryMin, SalaryMin + SalaryStep * UiK}

UiTrainingHoursValues == {0, UiK}

UiTurnoverValues == {0, UiK}

UiReplaceCostValues == {ReplaceCostMin, ReplaceCostMin + ReplaceCostStep * UiK}

UiTermValues == {TermMin, TermMin + UiK}

onEmployeesChange == showCalculator /\ \E v \in UiEmployeesValues : setEmployees(v)

onSalaryChange == showCalculator /\ \E v \in UiSalaryValues : setSalary(v)

onTrainingHoursChange ==
    showCalculator /\ \E v \in UiTrainingHoursValues : setTrainingHours(v)

onTurnoverChange == showCalculator /\ \E v \in UiTurnoverValues : setTurnover(v)

onReplaceCostChange ==
    showCalculator /\ \E v \in UiReplaceCostValues : setReplaceCost(v)

onTermChange == showCalculator /\ \E v \in UiTermValues : setTerm(v)

Init == InitAssumptions /\ InitUi /\ aistudio \in BOOLEAN

Next ==
    \/ handleFormSubmit
    \/ handleFormSubmitDelayDone
    \/ trackUserServe
    \/ trackUserUnreachable
    \/ handleFormSubmitFetchDone
    \/ backToForm
    \/ onEmployeesChange
    \/ onSalaryChange
    \/ onTrainingHoursChange
    \/ onTurnoverChange
    \/ onReplaceCostChange
    \/ onTermChange
    \/ getAiInsights
    \/ getAiInsightsServe
    \/ getAiInsightsUnreachable
    \/ getAiInsightsDone
    \/ cooldownExpires
    \/ downloadReport
    \/ downloadReportAfterDelay
    \/ downloadReportPage1
    \/ downloadReportPage2

Spec == Init /\ [][Next]_vars

(***************************************************************************)
(* downloadReport with its jsPDF document: what html2canvas finds on each  *)
(* page of the mounted PdfReport when it is called, and the file saved.    *)
(***************************************************************************)
\* Page 1: the assumptions table, the annual cost and the three KPI cards.
PdfPage1(props) ==
    [assumptions |-> props.assumptions,
     powerShopsAnnualCost |-> formatCurrency(props.calculations.powerShopsAnnualCost),
     totalRoi |-> formatPercent(props.calculations.totalRoi),
     netBenefit |-> formatCurrencyK(props.calculations.netBenefit),
     monthsToBreakEven |-> formatMonths(props.calculations.monthsToBreakEven)]

\* Page 2: the benefit bars, the total, the cash-flow chart, the insights.
PdfPage2(props) ==
    [productivityGains |-> formatCurrency(props.calculations.productivityGains),
     turnoverReductionSavings |->
         formatCurrency(props.calculations.turnoverReductionSavings),
     trainingTimeSavings |-> formatCurrency(props.calculations.trainingTimeSavings),
     totalBenefit |-> formatCurrency(props.calculations.totalBenefit),
     cashFlowData |-> props.calculations.cashFlowData,
     aiInsights |-> IF props.aiInsights = "" THEN "Insights not generated."
                    ELSE props.aiInsights]

\* After the 100 ms delay: the refs are read and the document is created.
downloadReportCreateDocument ==
    /\ pdfPc = "delay"
    /\ IF PdfReportMounted
       THEN pdfPc' = "page1" /\ pdfDoc' = <<>> /\ UNCHANGED isGeneratingPdf
       ELSE pdfPc' = "idle" /\ isGeneratingPdf' = FALSE /\ UNCHANGED pdfDoc
    /\ UNCHANGED userPrompt
    /\ UNCHANGED <<calcVars, formVars, aiVars, srvVars, fmtVars, numVars>>

\* html2canvas of page 1 resolves with the page as rendered at that moment,
\* or rejects; it rejects when the report has been unmounted meanwhile.
downloadReportAddPage1 ==
    /\ pdfPc = "page1"
    /\ \/ /\ PdfReportMounted
          /\ pdfPc' = "page2"
          /\ pdfDoc' = <<PdfPage1(PdfReportProps)>>
          /\ UNCHANGED isGeneratingPdf
       \/ pdfPc' = "idle" /\ isGeneratingPdf' = FALSE /\ UNCHANGED pdfDoc
    /\ UNCHANGED userPrompt
    /\ UNCHANGED <<calcVars, formVars, aiVars, srvVars, fmtVars, numVars>>

\* html2canvas of page 2 resolves with the page as rendered at that moment
\* and the two-page file is saved, or it rejects.
downloadReportAddPage2AndSave ==
    /\ pdfPc = "page2"
    /\ \/ PdfReportMounted /\ pdfDoc' = Append(pdfDoc, PdfPage2(PdfReportProps))
       \/ UNCHANGED pdfDoc
    /\ pdfPc' = "idle"
    /\ isGeneratingPdf' = FALSE
    /\ UNCHANGED userPrompt
    /\ UNCHANGED <<calcVars, formVars, aiVars, srvVars, fmtVars, numVars>>

NextReport ==
    \/ handleFormSubmit
    \/ handleFormSubmitDelayDone
    \/ trackUserServe
    \/ trackUserUnreachable
    \/ handleFormSubmitFetchDone
    \/ backToForm
    \/ onEmployeesChange
    \/ onTrainingHoursChange
    \/ onTermChange
    \/ downloadReport
    \/ downloadReportCreateDocument
    \/ downloadReportAddPage1
    \/ downloadReportAddPage2AndSave

SpecReport == Init /\ [][NextReport]_vars

(***************************************************************************)
(* getAiInsights with its userPrompt: the figures the narrative is asked   *)
(* to summarise are those current when the button is clicked.              *)
(***************************************************************************)
buildUserPrompt ==
    [built |-> TRUE,
     employees |-> employees,
     term |-> term,
     totalRoi |-> formatPercent(calculations.totalRoi),
     netBenefit |-> formatCurrency(calculations.netBenefit),
     paybackPeriod |-> formatMonths(calculations.monthsToBreakEven),
     productivityShare |->
         IF RGt(calculations.totalBenefit, R(0))
         THEN MathRound(RMul(RDiv(calculations.productivityGains,
                                  calculations.totalBenefit), R(100)))
         ELSE 0,
     callToAction |-> RGt(calculations.totalRoi, R(50))]

getAiInsightsBuildPrompt ==
    /\ showCalculator
    /\ ~isLoadingAi
    /\ aiPc = "idle"
    /\ aiInsights = "" \/ ~isRefreshDisabled
    /\ isLoadingAi' = TRUE
    /\ aiInsights' = ""
    /\ isRefreshDisabled' = TRUE
    /\ userPrompt' = buildUserPrompt
    /\ aiPc' = "fetch"
    /\ aiReq' = [state |-> "sent", status |-> 0, message |-> ""]
    /\ UNCHANGED <<cooldownTimers, pdfDoc>>
    /\ UNCHANGED <<calcVars, formVars, pdfVars, srvVars, fmtVars, numVars>>

NextNarrative ==
    \/ handleFormSubmit
    \/ handleFormSubmitDelayDone
    \/ trackUserServe
    \/ trackUserUnreachable
    \/ handleFormSubmitFetchDone
    \/ backToForm
    \/ onEmployeesChange
    \/ onSalaryChange
    \/ onTrainingHoursChange
    \/ onTermChange
    \/ getAiInsightsBuildPrompt
    \/ getAiInsightsServe
    \/ getAiInsightsUnreachable
    \/ getAiInsightsDone
    \/ cooldownExpires

SpecNarrative == Init /\ [][NextNarrative]_vars

(***************************************************************************)
(* The sliders moved over their ranges: the ends of each range and a step  *)
(* above its lower end, every term, with the form flow that unlocks them.  *)
(***************************************************************************)
RangeSalaryValues == UiSalaryValues \cup {SalaryMax}

RangeTurnoverValues == UiTurnoverValues \cup {TurnoverMax}

RangeReplaceCostValues == UiReplaceCostValues \cup {ReplaceCostMax}

RangeTermValues == TermMin..TermMax

NextRange ==
    \/ handleFormSubmit
    \/ handleFormSubmitDelayDone
    \/ trackUserServe
    \/ trackUserUnreachable
    \/ handleFormSubmitFetchDone
    \/ backToForm
    \/ onEmployeesChange
    \/ showCalculator /\ \E v \in RangeSalaryValues : setSalary(v)
    \/ onTrainingHoursChange
    \/ showCalculator /\ \E v \in RangeTurnoverValues : setTurnover(v)
    \/ showCalculator /\ \E v \in RangeReplaceCostValues : setReplaceCost(v)
    \/ showCalculator /\ \E v \in RangeTermValues : setTerm(v)

SpecRange == Init /\ [][NextRange]_vars

(***************************************************************************)
(* The formatters called on a number: values around the two thresholds of  *)
(* formatCurrencyK and around zero, of either sign, in halves.             *)
(***************************************************************************)
FormatBases ==
    {0, Thousand \div 2, Thousand, Thousand + Thousand \div 2,
     Million - Thousand \div 2, Million, Million + 50 * Thousand, 12 * Million}

FormatValues ==
    {Norm(sg * (2 * b + j), 2) :
        sg \in {-1, 1}, b \in FormatBases, j \in 0..(2 * FormatSpread)}
    \cup {Norm(sg * (2 * b - j), 2) :
        sg \in {-1, 1}, b \in FormatBases \ {0}, j \in 0..(2 * FormatSpread)}

formatValue(v) ==
    /\ formatInput' = v
    /\ formatOutput' = formatAll(v)
    /\ UNCHANGED <<calcVars, formVars, aiVars, pdfVars, srvVars, obsVars, numVars>>

NextFormat == \E v \in FormatValues : formatValue(v)

SpecFormat == InitCalc /\ [][NextFormat]_vars

(***************************************************************************)
(* The benefit figures in double precision.                                *)
(*                                                                         *)
(* A JavaScript number is an IEEE 754 binary64 value, and every `*`, `/`   *)
(* and `+` of the calculation rounds its exact result to the nearest such  *)
(* value, ties to even.  The exact rationals above leave that rounding     *)
(* out; here it is carried out.  A non-negative double is [m, e], the      *)
(* value m * 2^e, with m a natural number of at most 53 bits held as a     *)
(* little-endian sequence of 15-bit limbs (the empty sequence is 0) and    *)
(* made odd so that equal values are equal records.  The figures of the    *)
(* calculation lie between 2^-10 and 2^40, so subnormal values and         *)
(* overflow do not arise and are not modelled.                             *)
(***************************************************************************)
LimbBits == 15

LimbBase == 2 ^ LimbBits

\* The precision of binary64: 52 stored bits and the implicit leading one.
MantissaBits == 53

\* Extra quotient bits computed by a division before it is rounded.
DivGuardBits == 75

Min(a, b) == IF a < b THEN a ELSE b

RECURSIVE BTrim(_)
BTrim(a) ==
    IF a = <<>> THEN <<>>
    ELSE IF a[Len(a)] = 0 THEN BTrim(SubSeq(a, 1, Len(a) - 1))
    ELSE a

RECURSIVE BFromInt(_)
BFromInt(k) ==
    IF k = 0 THEN <<>> ELSE <<k % LimbBase>> \o BFromInt(k \div LimbBase)

RECURSIVE BAddCarry(_, _, _)
BAddCarry(a, b, c) ==
    IF a = <<>> /\ b = <<>> THEN BFromInt(c)
    ELSE LET x == IF a = <<>> THEN 0 ELSE Head(a)
             y == IF b = <<>> THEN 0 ELSE Head(b)
             sum == x + y + c
         IN  <<sum % LimbBase>>
                 \o BAddCarry(IF a = <<>> THEN <<>> ELSE Tail(a),
                              IF b = <<>> THEN <<>> ELSE Tail(b),
                              sum \div LimbBase)

BAdd(a, b) == BAddCarry(a, b, 0)

\* -1, 0 or 1 as a is below, equal to or above b.
RECURSIVE BCompare(_, _)
BCompare(a, b) ==
    IF Len(a) # Len(b) THEN (IF Len(a) < Len(b) THEN -1 ELSE 1)
    ELSE IF a = <<>> THEN 0
    ELSE LET n == Len(a)
         IN  IF a[n] # b[n] THEN (IF a[n] < b[n] THEN -1 ELSE 1)
             ELSE BCompare(BTrim(SubSeq(a, 1, n - 1)),
                           BTrim(SubSeq(b, 1, n - 1)))

\* a - b - c for a >= b + c.
RECURSIVE BSubBorrow(_, _, _)
BSubBorrow(a, b, c) ==
    IF a = <<>> THEN <<>>
    ELSE LET y == IF b = <<>> THEN 0 ELSE Head(b)
             d == Head(a) - y - c
         IN  <<d % LimbBase>>
                 \o BSubBorrow(Tail(a), IF b = <<>> THEN <<>> ELSE Tail(b),
                               IF d < 0 THEN 1 ELSE 0)

BSub(a, b) == BTrim(BSubBorrow(a, b, 0))

RECURSIVE BMulSmallCarry(_, _, _)
BMulSmallCarry(a, k, c) ==
    IF a = <<>> THEN BFromInt(c)
    ELSE LET p == Head(a) * k + c
         IN  <<p % LimbBase>> \o BMulSmallCarry(Tail(a), k, p \div LimbBase)

\* a * k for 0 <= k < LimbBase.
BMulSmall(a, k) == IF k = 0 THEN <<>> ELSE BMulSmallCarry(a, k, 0)

\* a * LimbBase^n.
BShiftLimbs(a, n) == IF a = <<>> THEN <<>> ELSE [i \in 1..n |-> 0] \o a

RECURSIVE BMul(_, _)
BMul(a, b) ==
    IF a = <<>> \/ b = <<>> THEN <<>>
    ELSE BAdd(BMulSmall(a, Head(b)), BShiftLimbs(BMul(a, Tail(b)), 1))

\* Quotient and remainder of a by k, 0 < k < LimbBase, from the top limb.
RECURSIVE BDivSmall(_, _)
BDivSmall(a, k) ==
    IF a = <<>> THEN [q |-> <<>>, r |-> 0]
    ELSE LET hi  == BDivSmall(Tail(a), k)
             cur == hi.r * LimbBase + Head(a)
         IN  [q |-> <<cur \div k>> \o hi.q, r |-> cur % k]

RECURSIVE IntBitLen(_)
IntBitLen(k) == IF k = 0 THEN 0 ELSE 1 + IntBitLen(k \div 2)

BBitLen(a) ==
    IF a = <<>> THEN 0
    ELSE LimbBits * (Len(a) - 1) + IntBitLen(a[Len(a)])

\* a * 2^s.
BShiftLeft(a, s) ==
    BShiftLimbs(BMulSmall(a, 2 ^ (s % LimbBits)), s \div LimbBits)

\* floor(a / 2^s), 0 <= s < BBitLen(a), and whether a nonzero bit was lost.
BShiftRight(a, s) ==
    LET limbs == s \div LimbBits
        d     == BDivSmall(SubSeq(a, limbs + 1, Len(a)), 2 ^ (s % LimbBits))
    IN  [q |-> BTrim(d.q),
         sticky |-> d.r # 0 \/ \E i \in 1..limbs : a[i] # 0]

BIsOdd(a) == a # <<>> /\ a[1] % 2 = 1

\* The one record of a value: an odd m, or zero.
RECURSIVE Canonical(_, _)
Canonical(m, e) ==
    IF m = <<>> THEN [m |-> <<>>, e |-> 0]
    ELSE IF m[1] = 0 THEN Canonical(Tail(m), e + LimbBits)
    ELSE IF BIsOdd(m) THEN [m |-> m, e |-> e]
    ELSE Canonical(BTrim(BDivSmall(m, 2).q), e + 1)

\* Round m * 2^e (plus a nonzero amount below one unit of m when sticky) to
\* the nearest binary64 value, ties to even.
roundToBinary64(m, e, sticky) ==
    LET len == BBitLen(m)
    IN  IF len <= MantissaBits THEN Canonical(m, e)
        ELSE LET s        == len - MantissaBits
                 g        == BShiftRight(m, s - 1)
                 roundBit == BIsOdd(g.q)
                 t        == BTrim(BDivSmall(g.q, 2).q)
                 up       == roundBit /\ (g.sticky \/ sticky \/ BIsOdd(t))
             IN  Canonical(IF up THEN BAdd(t, <<1>>) ELSE t, e + s)

\* An integer below 2^31 is a double exactly.
D(k) == Canonical(BFromInt(k), 0)

DMul(a, b) == roundToBinary64(BMul(a.m, b.m), a.e + b.e, FALSE)

DAdd(a, b) ==
    IF a.m = <<>> THEN b
    ELSE IF b.m = <<>> THEN a
    ELSE LET e == Min(a.e, b.e)
         IN  roundToBinary64(BAdd(BShiftLeft(a.m, a.e - e),
                                  BShiftLeft(b.m, b.e - e)), e, FALSE)

\* a / k for an integer divisor 0 < k < LimbBase.
DDivInt(a, k) ==
    IF a.m = <<>> THEN a
    ELSE LET d == BDivSmall(BShiftLeft(a.m, DivGuardBits), k)
         IN  roundToBinary64(BTrim(d.q), a.e - DivGuardBits, d.r # 0)

DCompare(a, b) ==
    LET e == Min(a.e, b.e)
    IN  BCompare(BShiftLeft(a.m, a.e - e), BShiftLeft(b.m, b.e - e))

DLe(a, b) == DCompare(a, b) <= 0

\* a - b: a sign (-1, 0 or 1) and the rounded magnitude.
DSub(a, b) ==
    LET e   == Min(a.e, b.e)
        x   == BShiftLeft(a.m, a.e - e)
        y   == BShiftLeft(b.m, b.e - e)
        cmp == BCompare(x, y)
    IN  [sign |-> cmp,
         abs |-> IF cmp >= 0 THEN roundToBinary64(BSub(x, y), e, FALSE)
                 ELSE roundToBinary64(BSub(y, x), e, FALSE)]

\* The literals 0.05 and 0.20: the doubles nearest to 5/100 and 20/100.
productivityBoost64 == DDivInt(D(5), 100)

turnoverReduction64 == DDivInt(D(20), 100)

annualCostForYear64(e, i) == DMul(D(e), D(tierOrLast(i)))

RECURSIVE totalInvestmentLoop64(_, _, _, _)
totalInvestmentLoop64(e, tm, i, acc) ==
    IF i < tm
    THEN totalInvestmentLoop64(e, tm, i + 1,
                               DAdd(acc, annualCostForYear64(e, i)))
    ELSE acc

\* Mutant: the cash-flow loop reads the price tier of the following year.
cashFlowCostForYear64OffByOne(e, year) == DMul(D(e), D(tierOrLast(year)))

cashFlowCostForYear64(e, year) == DMul(D(e), D(tierOrLast(year - 1)))

cashFlowEntry64(ab, year, cumulativeCost) ==
    LET cumulativeBenefit == DMul(ab, D(year))
    IN  [year |-> yearLabel(year),
         cumulativeBenefit |-> cumulativeBenefit,
         cumulativeCost |-> cumulativeCost,
         netCashFlow |-> DSub(cumulativeBenefit, cumulativeCost)]

RECURSIVE cashFlowLoop64(_, _, _, _, _, _)
cashFlowLoop64(e, tm, ab, i, cumulativeCost, entries) ==
    IF i <= tm
    THEN LET cc == IF i > 0
                   THEN DAdd(cumulativeCost, cashFlowCostForYear64(e, i))
                   ELSE cumulativeCost
         IN  cashFlowLoop64(e, tm, ab, i + 1, cc,
                            Append(entries, cashFlowEntry64(ab, i, cc)))
    ELSE entries

\* The totals of the calculation and its cash-flow series, every operation
\* rounded as the engine rounds it.
CalcBinary64(e, s, t, r, tm) ==
    LET ti  == totalInvestmentLoop64(e, tm, 0, D(0))
        hr  == DDivInt(D(s), workingHoursPerYear)
        apg == DMul(DMul(D(e), D(s)), productivityBoost64)
        ats == DMul(DMul(DMul(D(e), DDivInt(D(t), 100)),
                         turnoverReduction64), D(r))
        atr == DMul(DMul(D(e), D(trainingHoursSavedPerEmployee)), hr)
        ab  == DAdd(DAdd(apg, ats), atr)
        pg  == DMul(apg, D(tm))
        ts  == DMul(ats, D(tm))
        tr  == DMul(atr, D(tm))
        tb  == DAdd(DAdd(pg, ts), tr)
    IN  [totalInvestment |-> ti,
         totalBenefit |-> tb,
         netBenefit |-> DSub(tb, ti),
         cashFlowData |-> cashFlowLoop64(e, tm, ab, 0, D(0), <<>>)]

Binary64SalaryValues == {SalaryMin + SalaryStep * k : k \in 0..(UiK + 1)}

\* One assumption changes and the calculation is carried out again.
calcBinary64(e, s, t, r, tm) ==
    /\ binary64' = [applied |-> TRUE, employees |-> e, salary |-> s,
                    turnover |-> t, replaceCost |-> r, term |-> tm,
                    figures |-> CalcBinary64(e, s, t, r, tm)]
    /\ UNCHANGED <<calcVars, formVars, aiVars, pdfVars, srvVars, fmtVars,
                   obsVars>>

NextBinary64 ==
    \/ \E v \in UiEmployeesValues :
           calcBinary64(v, binary64.salary, binary64.turnover,
                        binary64.replaceCost, binary64.term)
    \/ \E v \in Binary64SalaryValues :
           calcBinary64(binary64.employees, v, binary64.turnover,
                        binary64.replaceCost, binary64.term)
    \/ \E v \in UiTurnoverValues :
           calcBinary64(binary64.employees, binary64.salary, v,
                        binary64.replaceCost, binary64.term)
    \/ \E v \in UiReplaceCostValues :
           calcBinary64(binary64.employees, binary64.salary,
                        binary64.turnover, v, binary64.term)
    \/ \E v \in RangeTermValues :
           calcBinary64(binary64.employees, binary64.salary,
                        binary64.turnover, binary64.replaceCost, v)

SpecBinary64 == InitCalc /\ [][NextBinary64]_vars

\* The Break-Even card of the calculator view and of page 1 of the report.
BreakEvenCard == formatMonths(calculations.monthsToBreakEven)

(***************************************************************************)
(* Reference definitions used by the properties.                           *)
(***************************************************************************)
cfd == calculations.cashFlowData

annualBenefitNow == annualBenefit(employees, salary, turnover, replaceCost)

RefRate(i) == IF i <= 5 THEN <<500, 475, 450, 425, 400>>[i] ELSE 400

RECURSIVE RefInvestment(_, _)
RefInvestment(e, n) ==
    IF n <= 0 THEN 0 ELSE RefInvestment(e, n - 1) + e * RefRate(n)

ValidAssumptions ==
    /\ employees >= EmployeesMin
    /\ salary >= SalaryMin
    /\ trainingHours \in 0..TrainingHoursMax
    /\ turnover \in 0..TurnoverMax
    /\ replaceCost >= ReplaceCostMin
    /\ term >= 1

\* C1: for every term >= 1, totalInvestment is the sum over years 1..term of
\* employees * rate(i), the rate being the i-th tier for i <= 5 and the last
\* tier (400) beyond; no year contributes an undefined or zero rate.
C1_TotalInvestmentTiered ==
    term >= 1 =>
        /\ calculations.totalInvestment = R(RefInvestment(employees, term))
        /\ \A i \in 1..term :
              annualCostForYear(employees, i - 1) = R(employees * RefRate(i))

C1_Witness ==
    /\ term = 6
    /\ employees = 10
    /\ calculations.totalInvestment = R(26500)

\* C2: totalBenefit is exactly the sum of the three benefit components of
\* the same record.
C2_TotalBenefitIsSum ==
    calculations.totalBenefit =
        RAdd(RAdd(calculations.productivityGains,
                  calculations.turnoverReductionSavings),
             calculations.trainingTimeSavings)

C2_Witness ==
    /\ RGt(calculations.productivityGains, R(0))
    /\ RGt(calculations.turnoverReductionSavings, R(0))
    /\ RGt(calculations.trainingTimeSavings, R(0))
    /\ term >= 2

\* C3: netBenefit is exactly totalBenefit - totalInvestment.
C3_NetBenefitIsDifference ==
    calculations.netBenefit =
        RSub(calculations.totalBenefit, calculations.totalInvestment)

C3_Witness ==
    /\ RGt(calculations.totalInvestment, calculations.totalBenefit)
    /\ RGt(calculations.totalBenefit, R(0))
    /\ RGt(R(0), calculations.netBenefit)

\* C4: totalRoi is netBenefit / totalInvestment * 100 when totalInvestment > 0
\* and exactly 0 when totalInvestment = 0; no input yields a division by zero
\* or a non-numeric result.
C4_RoiGuarded ==
    /\ RGt(calculations.totalInvestment, R(0)) =>
          calculations.totalRoi =
              RMul(RDiv(calculations.netBenefit, calculations.totalInvestment),
                   R(100))
    /\ calculations.totalInvestment = R(0) => calculations.totalRoi = R(0)
    /\ IsFinite(calculations.totalRoi)
    /\ IsFinite(calculations.powerShopsAnnualCost)
    /\ IsFinite(calculations.monthsToBreakEven)
    /\ IsFinite(calculations.netBenefit)

C4_Witness ==
    /\ employees > 0
    /\ salary > 0
    /\ term = 0
    /\ calculations.totalInvestment = R(0)
    /\ calculations.totalRoi = R(0)

\* C5: monthsToBreakEven is totalInvestment / (annualBenefit - annualCost) * 12
\* when annualBenefit > annualCost (the average yearly cost), and the
\* no-break-even sentinel 0 otherwise.
C5_BreakEvenFormula ==
    LET ab == annualBenefitNow
        ac == calculations.powerShopsAnnualCost
    IN  calculations.monthsToBreakEven =
            IF RGt(ab, ac)
            THEN RMul(RDiv(calculations.totalInvestment, RSub(ab, ac)), R(12))
            ELSE R(0)

C5_Witness ==
    /\ term >= 2
    /\ RGt(annualBenefitNow, calculations.powerShopsAnnualCost)
    /\ RGt(calculations.monthsToBreakEven, R(12))

\* C6: with non-negative inputs monthsToBreakEven is never negative and never
\* infinite; when annualBenefit <= annualCost it is the sentinel, which the
\* display renders as "N/A".
C6_BreakEvenNeverNegative ==
    /\ IsFinite(calculations.monthsToBreakEven)
    /\ RGe(calculations.monthsToBreakEven, R(0))
    /\ ~RGt(annualBenefitNow, calculations.powerShopsAnnualCost) =>
          /\ calculations.monthsToBreakEven = R(0)
          /\ formatMonths(calculations.monthsToBreakEven) = "N/A"

C6_Witness ==
    /\ employees > 0
    /\ term >= 1
    /\ RGt(annualBenefitNow, R(0))
    /\ RGt(calculations.powerShopsAnnualCost, annualBenefitNow)
    /\ calculations.monthsToBreakEven = R(0)
    /\ formatMonths(calculations.monthsToBreakEven) = "N/A"

\* C7: a finite monthsToBreakEven m is the time at which cumulative benefit
\* first exceeds cumulative cost, consistently with the cash-flow series:
\* no entry before m months has its benefit above its cost, and every entry
\* after m months has.
C7_BreakEvenIsCrossing ==
    LET m == calculations.monthsToBreakEven
    IN  RGt(m, R(0)) =>
            \A y \in 1..term :
                /\ RGt(m, R(12 * y)) =>
                      ~RGt(cfd[y + 1].cumulativeBenefit, cfd[y + 1].cumulativeCost)
                /\ RGt(R(12 * y), m) =>
                      RGt(cfd[y + 1].cumulativeBenefit, cfd[y + 1].cumulativeCost)

\* C8: for every term >= 1 the cash-flow series has term + 1 entries, labelled
\* "Year 0" .. "Year term" in order, and entry 0 has zero cumulative benefit
\* and zero cumulative cost.
C8_SeriesShape ==
    term >= 1 =>
        /\ Len(cfd) = term + 1
        /\ \A i \in 1..Len(cfd) : cfd[i].year = "Year " \o ToString(i - 1)
        /\ cfd[1].cumulativeBenefit = R(0)
        /\ cfd[1].cumulativeCost = R(0)

C8_Witness ==
    /\ term = 3
    /\ Len(cfd) = 4
    /\ cfd[4].year = "Year 3"
    /\ RGt(cfd[4].cumulativeCost, R(0))

\* C9: entry y of the series has cumulativeBenefit = annualBenefit * y and
\* cumulativeCost = the tiered, last-tier-clamped sum of years 1..y; that sum
\* is not the linear projection annualCost * y of the term average (it lies
\* above it for every y short of the term).
C9_SeriesValues ==
    \A y \in 1..term :
        /\ y + 1 <= Len(cfd)
        /\ cfd[y + 1].cumulativeBenefit = RMul(annualBenefitNow, R(y))
        /\ cfd[y + 1].cumulativeCost = R(RefInvestment(employees, y))
        /\ (employees > 0 /\ y < term) =>
              RGt(cfd[y + 1].cumulativeCost,
                  RMul(calculations.powerShopsAnnualCost, R(y)))

C9_Witness ==
    /\ term = 3
    /\ employees = 10
    /\ cfd[3].cumulativeCost = R(9750)
    /\ RMul(calculations.powerShopsAnnualCost, R(2)) = R(9500)

\* C10: for every valid Assumptions value, cumulativeCost and
\* cumulativeBenefit are strictly increasing along the series.
C10_SeriesStrictlyIncreasing ==
    ValidAssumptions =>
        \A y \in 1..term :
            /\ y + 1 <= Len(cfd)
            /\ RGt(cfd[y + 1].cumulativeCost, cfd[y].cumulativeCost)
            /\ RGt(cfd[y + 1].cumulativeBenefit, cfd[y].cumulativeBenefit)

C10_Witness ==
    /\ ValidAssumptions
    /\ term >= 6
    /\ Len(cfd) = term + 1
    /\ RGt(cfd[term + 1].cumulativeCost, cfd[term].cumulativeCost)

\* C11: for every valid Assumptions value, totalInvestment, the three benefit
\* components, totalBenefit and the cumulativeBenefit and cumulativeCost of
\* every cash-flow entry are all >= 0.
C11_NonNegative ==
    ValidAssumptions =>
        /\ RGe(calculations.totalInvestment, R(0))
        /\ RGe(calculations.productivityGains, R(0))
        /\ RGe(calculations.turnoverReductionSavings, R(0))
        /\ RGe(calculations.trainingTimeSavings, R(0))
        /\ RGe(calculations.totalBenefit, R(0))
        /\ \A i \in 1..Len(cfd) :
              /\ RGe(cfd[i].cumulativeBenefit, R(0))
              /\ RGe(cfd[i].cumulativeCost, R(0))

C11_Witness ==
    /\ ValidAssumptions
    /\ turnover > 0
    /\ term >= 2
    /\ Len(cfd) = term + 1
    /\ RGt(cfd[term + 1].cumulativeCost, R(0))
    /\ RGt(calculations.turnoverReductionSavings, R(0))

\* C12: the derived metrics are determined by the current values of
\* employees, salary, turnover, replaceCost and term alone, whatever
\* evaluations happened before: the memoized record is always the
\* calculation on the current values.
C12_DeterminedByInputs ==
    calculations = Calc(employees, salary, turnover, replaceCost, term)

C12_Witness ==
    /\ employees = 10 /\ salary = 20000 /\ turnover = 0
    /\ replaceCost = 5000 /\ term = 1
    /\ trainingHours # 0
    /\ calculations.totalInvestment = R(5000)

\* C13: between two valid Assumptions values that differ only in employees,
\* the one with more employees has a totalBenefit and a totalInvestment at
\* least as large.
C13_MonotoneInEmployees ==
    [][(/\ employees' > employees
        /\ UNCHANGED <<salary, trainingHours, turnover, replaceCost, term>>
        /\ ValidAssumptions
        /\ ValidAssumptions')
       => /\ RGe(calculations'.totalBenefit, calculations.totalBenefit)
          /\ RGe(calculations'.totalInvestment, calculations.totalInvestment)]_vars

C13_Witness ==
    /\ ValidAssumptions
    /\ employees = 2 * EmployeesMin
    /\ calculations.totalInvestment = R(RefInvestment(2 * EmployeesMin, term))
    /\ RGt(calculations.totalBenefit, R(0))

\* C14: trainingHours influences no derived metric: trainingTimeSavings is
\* always employees * 10 * (salary / 2080) * term, and a change of
\* trainingHours alone leaves the derived metrics as they were.
C14_TrainingHoursIgnored ==
    /\ [](calculations.trainingTimeSavings =
              Norm(employees * 10 * salary * term, 2080))
    /\ [][(/\ trainingHours' # trainingHours
           /\ UNCHANGED <<employees, salary, turnover, replaceCost, term>>)
          => calculations' = calculations]_vars

C14_Witness ==
    /\ trainingHours > 0
    /\ employees > 0 /\ salary > 0 /\ term > 0
    /\ calculations.trainingTimeSavings =
           Norm(employees * 10 * salary * term, 2080)

\* C15: each cumulative benefit component is its annual value times term;
\* with turnover = 0 the turnover component is exactly 0 and still present;
\* employees=10, salary=20000, turnover=0, term=1 gives totalInvestment 5000,
\* productivityGains 10000 and turnover savings 0.
C15_ComponentsTimesTerm ==
    /\ calculations.productivityGains = Norm(employees * salary * term * 5, 100)
    /\ calculations.turnoverReductionSavings =
           RMul(R(employees * turnover), Norm(replaceCost * term * 20, 10000))
    /\ calculations.trainingTimeSavings =
           RMul(R(employees * 10 * term), Norm(salary, 2080))
    /\ "turnoverReductionSavings" \in DOMAIN calculations
    /\ turnover = 0 => calculations.turnoverReductionSavings = R(0)
    /\ (employees = 10 /\ salary = 20000 /\ turnover = 0 /\ term = 1) =>
          /\ calculations.totalInvestment = R(5000)
          /\ calculations.productivityGains = R(10000)
          /\ calculations.turnoverReductionSavings = R(0)

C15_Witness ==
    /\ employees > 0 /\ term >= 2
    /\ turnover = TurnoverMax
    /\ replaceCost > 0
    /\ RGt(calculations.turnoverReductionSavings, R(0))

\* C16: annualCost (powerShopsAnnualCost) is totalInvestment / term for
\* term > 0 and 0 for term = 0: the average yearly cost, not the year-1 rate.
C16_AnnualCostIsAverage ==
    /\ term > 0 =>
          /\ calculations.powerShopsAnnualCost =
                 Norm(RefInvestment(employees, term), term)
          /\ RMul(calculations.powerShopsAnnualCost, R(term)) =
                 calculations.totalInvestment
    /\ term = 0 => calculations.powerShopsAnnualCost = R(0)
    /\ (employees > 0 /\ term >= 2) =>
          RGt(R(employees * RefRate(1)), calculations.powerShopsAnnualCost)

C16_Witness ==
    /\ employees = 10
    /\ term = 3
    /\ calculations.powerShopsAnnualCost = R(4750)

IsFallbackMessage(text) ==
    /\ Len(text) > Len(AiErrorPrefix)
    /\ SubSeq(text, 1, Len(AiErrorPrefix)) = AiErrorPrefix

AiCallFailed ==
    /\ aiPc = "fetch"
    /\ aiReq.state \in {"response", "failed", "unparsable"}
    /\ ~aiRequestOk(aiReq)

C18_InsightsFailureDegradesGracefully ==
    [][(AiCallFailed /\ aiPc' = "idle") =>
          /\ IsFallbackMessage(aiInsights')
          /\ isLoadingAi' = FALSE
          /\ UNCHANGED calcVars
          /\ UNCHANGED formVars
          /\ UNCHANGED pdfVars]_vars

\* A failed call has been handled while the calculator is shown with
\* assumptions other than the defaults.
C18_Witness ==
    /\ showCalculator
    /\ IsFallbackMessage(aiInsights)
    /\ ~isLoadingAi
    /\ aiPc = "idle"
    /\ employees # 10
    /\ calculations = Calc(employees, salary, turnover, replaceCost, term)

(***************************************************************************)
(* C19. When the lead-capture submission fails (the fetch rejects or       *)
(* track-user answers with a non-OK status), the step that handles the     *)
(* failure shows the user a message and the calculator becomes available.  *)
(***************************************************************************)
SubmissionFailed ==
    /\ submitPc = "fetch"
    /\ trackUserReq.state \in {"response", "failed"}
    /\ ~(trackUserReq.state = "response" /\ trackUserReq.status \in 200..299)

C19_SubmissionFailureStillUnlocks ==
    [][(SubmissionFailed /\ submitPc' = "idle") =>
          /\ submitAlert' # ""
          /\ showCalculator']_vars

(***************************************************************************)
(* C20. The track-user handler answers 200 to every POST whose body is     *)
(* valid JSON, whatever happens to the Google Sheets integration: the URL  *)
(* missing, the webhook answering with a non-OK status, or the webhook     *)
(* request failing outright.                                               *)
(***************************************************************************)
C20_TrackUserAlwaysSucceeds ==
    (/\ trackUserLog.invoked
     /\ trackUserLog.httpMethod = "POST"
     /\ trackUserLog.body \in ValidJsonBodies)
        => trackUserLog.statusCode = 200

(***************************************************************************)
(* C21. Compact currency formatting of a finite value v: where             *)
(* |v| >= 1,000,000 the text is v / 1,000,000 to one decimal followed by   *)
(* "M"; where 1,000 <= |v| < 1,000,000 it is v / 1,000 rounded to an       *)
(* integer followed by "K"; where |v| < 1,000 it is the full currency      *)
(* format rounded to an integer.  The sign of v is kept in all three.      *)
(***************************************************************************)
WithinHalf(x, k) == RGe(Norm(1, 2), RAbs(RSub(x, R(k))))

Floor(x) == x.n \div x.d

\* text is x to one decimal place followed by suffix.
IsOneDecimal(text, x, suffix) ==
    LET tenths == RMul(RAbs(x), R(10))
    IN  \E q \in {Floor(tenths), Floor(tenths) + 1} :
            /\ WithinHalf(tenths, q)
            /\ text = (IF x.n < 0 THEN "-" ELSE "")
                          \o ToString(q \div 10) \o "." \o ToString(q % 10) \o suffix

\* text is x rounded to an integer followed by suffix.
IsRounded(text, x, suffix) ==
    \E k \in {Floor(x), Floor(x) + 1} :
        WithinHalf(x, k) /\ text = ToString(k) \o suffix

\* text is the full currency format of x, |x| < 1000.
IsFullCurrency(text, x) ==
    \E m \in {Floor(RAbs(x)), Floor(RAbs(x)) + 1} :
        /\ WithinHalf(RAbs(x), m)
        /\ text = (IF x.n < 0 THEN "-$" ELSE "$")
                      \o (IF m = 1000 THEN "1,000" ELSE ToString(m))

CompactAsClaimed(size) ==
    LET v == formatInput
        text == formatOutput.formatCurrencyK
    IN  /\ RGe(size, R(Million)) => IsOneDecimal(text, RDiv(v, R(Million)), "M")
        /\ (RGe(size, R(Thousand)) /\ ~RGe(size, R(Million)))
              => IsRounded(text, RDiv(v, R(Thousand)), "K")
        /\ ~RGe(size, R(Thousand))
              => text = formatOutput.formatCurrency /\ IsFullCurrency(text, v)

C21_CompactCurrencyByMagnitude == CompactAsClaimed(RAbs(formatInput))

\* The statement with the thresholds read on the value itself: every value
\* below 1,000, every negative value included, in the full currency format.
C21_CompactCurrencyAsStated == CompactAsClaimed(formatInput)

\* A negative value of at least a thousand in magnitude has been formatted.
C21_Witness ==
    /\ formatInput.n < 0
    /\ RGe(RAbs(formatInput), R(Thousand))
    /\ ~RGe(RAbs(formatInput), R(Million))
    /\ formatOutput.formatCurrencyK = "-1K"

(***************************************************************************)
(* C22. The Break-Even card shows "N/A" exactly when the calculation       *)
(* yields the no-break-even sentinel 0; every other value the calculation  *)
(* yields is finite and is shown to one decimal place followed by " mo".   *)
(***************************************************************************)
C22_BreakEvenFormatting ==
    LET v == calculations.monthsToBreakEven
    IN  /\ IsFinite(v)
        /\ (v = R(0)) <=> (BreakEvenCard = "N/A")
        /\ v # R(0) => IsOneDecimal(BreakEvenCard, v, " mo")

\* A break-even value has been computed and shown.
C22_Witness ==
    /\ RGt(calculations.monthsToBreakEven, R(0))
    /\ BreakEvenCard = "38.0 mo"

(***************************************************************************)
(* C23. The calculator is locked initially; showCalculator turns true only *)
(* in the step that completes a form submission, either one whose          *)
(* track-user request got an OK response or one in AI Studio, which sends  *)
(* no request; the step that handles a failed submission leaves it false;  *)
(* and it turns false only by "Back to Form", which changes nothing else.  *)
(***************************************************************************)
SubmissionSucceeded ==
    /\ submitPc = "fetch"
    /\ trackUserReq.state = "response"
    /\ trackUserReq.status \in 200..299

C23_UnlockedOnlyByForm ==
    /\ ~showCalculator
    /\ [][/\ (~showCalculator /\ showCalculator') =>
                 /\ isSubmitting
                 /\ (aistudio /\ submitPc = "delay") \/ (~aistudio /\ SubmissionSucceeded)
                 /\ submitPc' = "idle"
          /\ (SubmissionFailed /\ submitPc' = "idle") => ~showCalculator'
          /\ (showCalculator /\ ~showCalculator') =>
                 /\ UNCHANGED <<aistudio, isSubmitting, submitPc, trackUserReq, submitAlert>>
                 /\ UNCHANGED <<calcVars, aiVars, pdfVars, extVars>>]_vars

\* The calculator has been unlocked by a track-user request that succeeded
\* and a slider has been moved.
C23_Witness ==
    /\ showCalculator
    /\ ~aistudio
    /\ submitPc = "idle"
    /\ employees # 10

(***************************************************************************)
(* C24. The get-ai-insights handler answers every invocation, by the first *)
(* of these that applies: 405 to a method other than POST; 500 with the    *)
(* configuration error when API_KEY is missing, whatever the body; 500     *)
(* with the internal error when the body cannot be parsed; 400 when a      *)
(* prompt is missing; 500 with the internal error when the model call      *)
(* throws; 500 when the model returns no text; and 200, with a non-empty   *)
(* insights text, in the one remaining case.                               *)
(***************************************************************************)
C24_InsightsHandlerOrder ==
    LET log == aiInsightsLog
        posted == log.httpMethod = "POST"
        parsed == log.body \notin ThrowingBodies
        complete == log.body \notin MissingPromptBodies
    IN  log.invoked =>
          /\ log.statusCode \in {200, 400, 405, 500}
          /\ ~posted => log.statusCode = 405
          /\ (posted /\ ~log.apiKeySet) =>
                log.statusCode = 500 /\ log.error = AiConfigError
          /\ (posted /\ log.apiKeySet /\ ~parsed) =>
                log.statusCode = 500 /\ log.error = AiInternalError(ParseErrorMessage)
          /\ (posted /\ log.apiKeySet /\ parsed /\ ~complete) =>
                log.statusCode = 400 /\ log.error = AiMissingPromptError
          /\ (posted /\ log.apiKeySet /\ parsed /\ complete /\ log.sdk = "throws") =>
                log.statusCode = 500 /\ log.error = AiInternalError(SdkErrorMessage)
          /\ (posted /\ log.apiKeySet /\ parsed /\ complete /\ log.sdk = "empty") =>
                log.statusCode = 500 /\ log.error = AiEmptyResponseError
          /\ (log.statusCode = 200) <=>
                (posted /\ log.apiKeySet /\ parsed /\ complete /\ log.sdk = "text")
          /\ (log.statusCode = 200) => log.insights # ""
          /\ (log.statusCode # 200) => log.insights = ""

\* A POST with an unparsable body reached a function that has no API key.
C24_Witness ==
    /\ aiInsightsLog.invoked
    /\ aiInsightsLog.httpMethod = "POST"
    /\ ~aiInsightsLog.apiKeySet
    /\ aiInsightsLog.body = "invalid"
    /\ aiInsightsLog.statusCode = 500

(***************************************************************************)
(* C25. From the start of getAiInsights until the timer armed at its       *)
(* completion has fired, no button starts another insights request: at     *)
(* most one request is in flight and at most one timer is pending, so the  *)
(* text a response sets belongs to the latest request.                     *)
(***************************************************************************)
InsightsRequestInFlight == aiPc = "fetch"

C25_InsightsSerializedWithCooldown ==
    /\ (InsightsRequestInFlight \/ cooldownTimers > 0) => ~ENABLED getAiInsights
    /\ cooldownTimers \in {0, 1}
    /\ ~(InsightsRequestInFlight /\ cooldownTimers > 0)
    /\ InsightsRequestInFlight <=> isLoadingAi
    /\ InsightsRequestInFlight <=> aiReq # NoRequest
    /\ cooldownTimers > 0 => aiInsights # "" /\ isRefreshDisabled

\* A request has completed with the calculator shown: the cooldown runs.
C25_Witness ==
    /\ showCalculator
    /\ cooldownTimers = 1
    /\ aiInsights = InsightsText
    /\ isRefreshDisabled
    /\ ~isLoadingAi

(***************************************************************************)
(* C26. The last cash-flow entry and the summary totals, in the double     *)
(* precision the engine computes in.                                       *)
(***************************************************************************)
\* a * 2^k, exact.
DScale(a, k) == IF a.m = <<>> THEN a ELSE [m |-> a.m, e |-> a.e + k]

\* Two non-negative doubles lie within 2^-49 of the size of `size`: the
\* distance that the roundings of a handful of operations can open.
WithinRounding(a, b, size) == DLe(DSub(a, b).abs, DScale(size, -49))

\* The entry pushed for year `term`.
LastEntry64 == binary64.figures.cashFlowData[binary64.term + 1]

\* Every entry's netCashFlow is its cumulativeBenefit - cumulativeCost.
NetCashFlowIsDifference64 ==
    \A i \in DOMAIN binary64.figures.cashFlowData :
        LET entry == binary64.figures.cashFlowData[i]
        IN  entry.netCashFlow
                = DSub(entry.cumulativeBenefit, entry.cumulativeCost)

\* C26 (as amended): for every term >= 1 the last cash-flow entry has
\* cumulativeCost = totalInvestment exactly and every entry's netCashFlow is
\* its cumulativeBenefit - cumulativeCost; the last cumulativeBenefit agrees
\* with totalBenefit, and the last netCashFlow with netBenefit, up to
\* floating-point rounding (within 2^-49 of totalBenefit), not bit for bit.
C26_LastEntryAgreesUpToRounding ==
    (binary64.applied /\ binary64.term >= 1) =>
        LET f == binary64.figures
        IN  /\ LastEntry64.cumulativeCost = f.totalInvestment
            /\ NetCashFlowIsDifference64
            /\ WithinRounding(LastEntry64.cumulativeBenefit, f.totalBenefit,
                              f.totalBenefit)
            /\ LastEntry64.netCashFlow.sign = f.netBenefit.sign
            /\ WithinRounding(LastEntry64.netCashFlow.abs, f.netBenefit.abs,
                              f.totalBenefit)

\* C26 (as stated): for every term >= 1 the last cash-flow entry has
\* cumulativeCost = totalInvestment and cumulativeBenefit = totalBenefit,
\* every entry's netCashFlow is its cumulativeBenefit - cumulativeCost, and
\* so the last netCashFlow equals netBenefit.
C26_LastEntryEqualsTotals ==
    (binary64.applied /\ binary64.term >= 1) =>
        LET f == binary64.figures
        IN  /\ LastEntry64.cumulativeCost = f.totalInvestment
            /\ LastEntry64.cumulativeBenefit = f.totalBenefit
            /\ NetCashFlowIsDifference64
            /\ LastEntry64.netCashFlow = f.netBenefit

\* Five years at a salary of 22,000: the costs agree exactly while the two
\* benefit totals have been rounded apart.
C26_Witness ==
    /\ binary64.applied
    /\ binary64.term = TermMax
    /\ LastEntry64.cumulativeCost = binary64.figures.totalInvestment
    /\ LastEntry64.cumulativeBenefit # binary64.figures.totalBenefit

(***************************************************************************)
(* C27. For every assumption set the sliders can produce, the annual       *)
(* benefit exceeds the average annual cost, so monthsToBreakEven is not    *)
(* the sentinel: it is finite, greater than 0 and at most 12 * term; and   *)
(* totalRoi is greater than 50, the test that adds the demo call to action *)
(* to the narrative prompt.                                                *)
(***************************************************************************)
InSliderRanges ==
    /\ employees \in EmployeesMin..EmployeesMax
    /\ salary \in SalaryMin..SalaryMax
    /\ turnover \in 0..TurnoverMax
    /\ replaceCost \in ReplaceCostMin..ReplaceCostMax
    /\ term \in TermMin..TermMax

C27_AlwaysBreaksEvenInRange ==
    LET m == calculations.monthsToBreakEven
    IN  /\ InSliderRanges
        /\ RGt(annualBenefitNow, calculations.powerShopsAnnualCost)
        /\ IsFinite(m)
        /\ RGt(m, R(0))
        /\ RGe(R(12 * term), m)
        /\ BreakEvenCard # "N/A"
        /\ RGt(calculations.totalRoi, R(50))

\* The least favourable corner of the ranges at the longest term, reached
\* by moving the term slider alone.
C27_Witness ==
    /\ showCalculator
    /\ employees = EmployeesMin
    /\ salary = SalaryMin
    /\ turnover = 0
    /\ term = TermMax
    /\ RGt(calculations.totalRoi, R(50))

(***************************************************************************)
(* C28. The two pages of a saved report come from one snapshot of the      *)
(* assumptions: the figures on page 2 are those derived from the           *)
(* assumption values shown on page 1.                                      *)
(***************************************************************************)
PropsOf(a) ==
    [calculations |-> Calc(a.employees, a.salary, a.turnover, a.replaceCost, a.term),
     assumptions |-> a, aiInsights |-> aiInsights]

ReportSaved == Len(pdfDoc) = 2

C28_PagesFromOneSnapshot ==
    ReportSaved =>
        LET snapshot == PdfPage2(PropsOf(pdfDoc[1].assumptions))
        IN  /\ pdfDoc[1] = PdfPage1(PropsOf(pdfDoc[1].assumptions))
            /\ pdfDoc[2].productivityGains = snapshot.productivityGains
            /\ pdfDoc[2].turnoverReductionSavings = snapshot.turnoverReductionSavings
            /\ pdfDoc[2].trainingTimeSavings = snapshot.trainingTimeSavings
            /\ pdfDoc[2].totalBenefit = snapshot.totalBenefit
            /\ pdfDoc[2].cashFlowData = snapshot.cashFlowData

(***************************************************************************)
(* C29. Whenever the insights panel shows a generated narrative, and       *)
(* whenever the report is rendered with one, the narrative was generated   *)
(* from a prompt built from the values that are current at that moment.    *)
(***************************************************************************)
NarrativeShown ==
    /\ showCalculator
    /\ ~isLoadingAi
    /\ aiInsights # ""
    /\ ~IsFallbackMessage(aiInsights)

C29_NarrativeMatchesCurrentMetrics ==
    NarrativeShown => userPrompt = buildUserPrompt

====
